---- MODULE Spec2Model ----
(***************************************************************************)
(* Model of scrape_deals.py: the card extractor, the keyword matcher, the  *)
(* fallback block extractor, the record builder, the CSV writer and the    *)
(* orchestrating main().                                                   *)
(*                                                                         *)
(* Text is a sequence of one-character strings, so that whitespace         *)
(* normalisation, regular-expression search, slicing, "|".join and URL     *)
(* joining are computed and not assumed.                                   *)
(***************************************************************************)
EXTENDS Integers, Sequences, FiniteSets, TLC

VARIABLES
  \* ---- main(): one run of the pipeline
  keywords,     \* cfg["keywords"], an ordered list of patterns
  stores,       \* cfg["stores"], a list of [name, urls]
  si,           \* index of the store the outer loop is at
  ui,           \* index of the next url of that store
  gkeys,        \* insertion order of the keys of the dict `grouped`
  grouped,      \* dict `grouped`: store name -> list of rows
  all_rows,     \* list `all_rows`
  log,          \* history: one entry per url iteration of main()
  pc,           \* "loop" | "done" for main(); "files" / "fn" elsewhere
  \* ---- the file system
  TODAY,        \* module-level TODAY of the running process
  allcsv,       \* data/all.csv: whether it exists, and its CSV lines
  daily,        \* the files data/daily-<date>.csv: date -> CSV lines
  report,       \* the rendered index.md: whether it exists, and its content
  runs,         \* history: the row lists handed to write_daily_and_all
  \* ---- the extraction functions, called one after another on one input
  fsite,        \* [name, url]: the store name and base url handed over
  soup,         \* the parsed document
  fkw,          \* keyword list handed to the matchers
  cards,        \* result of find_product_cards
  matched,      \* result of match_cards_by_keywords
  built,        \* the local list `rows` of rows_from_matches, before the dedup
  rows1,        \* result of rows_from_matches
  rows2,        \* result of a second rows_from_matches on the same input
  blocks,       \* result of extract_blocks_for_fallback
  frows,        \* result of rows_from_fallback_blocks
  fdone         \* which of the functions have been called

mainVars == <<keywords, stores, si, ui, gkeys, grouped, all_rows, log>>
fileVars == <<TODAY, allcsv, daily, report, runs>>
fnVars   == <<fsite, soup, fkw, cards, matched, built, rows1, rows2, blocks, frows, fdone>>
vars     == <<mainVars, pc, fileVars, fnVars>>

\* len(line) < 100 in extract_blocks_for_fallback
MinBlockLen == 100

\* m.get("raw","")[:120] in rows_from_matches
TitleSliceLen == 120

\* Python's None: a one-element sequence that is no text, since its element
\* is not a single character
None   == <<"None">>

(***************************************************************************)
(* Characters and strings                                                  *)
(***************************************************************************)
UpperChars == <<"A","B","C","D","E","F","G","H","I","J","K","L","M",
                "N","O","P","Q","R","S","T","U","V","W","X","Y","Z">>
LowerChars == <<"a","b","c","d","e","f","g","h","i","j","k","l","m",
                "n","o","p","q","r","s","t","u","v","w","x","y","z">>

LowerOfUpper == [c \in {UpperChars[i] : i \in 1..26} |->
                   LowerChars[CHOOSE i \in 1..26 : UpperChars[i] = c]]

\* re.I: letters compare by their lower-case form
Lower(c) == IF c \in DOMAIN LowerOfUpper THEN LowerOfUpper[c] ELSE c

IsWs(c)    == c \in {" ", "\n", "\t"}
IsDigit(c) == c \in {"0","1","2","3","4","5","6","7","8","9"}

Min(a, b) == IF a < b THEN a ELSE b

\* s[:n]
Take(s, n) == SubSeq(s, 1, Min(n, Len(s)))

\* s[i:] with i a 1-based position
From(s, i) == SubSeq(s, i, Len(s))

\* str.strip(): from the first to the last non-blank character
Strip(s) ==
  LET nw == {i \in 1..Len(s) : ~IsWs(s[i])}
  IN IF nw = {} THEN <<>>
     ELSE SubSeq(s, CHOOSE i \in nw : \A k \in nw : i <= k,
                    CHOOSE i \in nw : \A k \in nw : k <= i)

\* re.sub(r"\s+", " ", s): every character that is not blank stays, and
\* every run of blanks leaves one space where it starts
CollapseWs(s) ==
  LET Keep(i) == ~IsWs(s[i]) \/ i = 1 \/ ~IsWs(s[i - 1])
      idx     == SelectSeq([i \in 1..Len(s) |-> i], Keep)
  IN [n \in 1..Len(idx) |-> IF IsWs(s[idx[n]]) THEN " " ELSE s[idx[n]]]

\* textnorm(s): (s or "") with whitespace runs collapsed, then stripped
textnorm(s) == IF s = None THEN <<>> ELSE Strip(CollapseWs(s))

\* sep.join(parts)
RECURSIVE Join(_, _)
Join(sep, parts) ==
  IF parts = <<>> THEN <<>>
  ELSE IF Len(parts) = 1 THEN parts[1]
  ELSE parts[1] \o sep \o Join(sep, Tail(parts))

\* sha1(s): a digest of the text, taken as collision-free: the text behind
\* a tag that is no character, so that a digest is never a text
sha1(s) == <<"sha1:">> \o s

(***************************************************************************)
(* Regular expressions.  A match position is 1-based; an operator named    *)
(* ...End gives the position just after the match, or 0 for no match.      *)
(***************************************************************************)

\* re.search(kw, blob, flags=re.I) for a pattern kw without metacharacters:
\* kw occurs in blob, letters compared case-insensitively.  The empty
\* pattern matches every text.
re_search(kw, blob) ==
  \E i \in 0..(Len(blob) - Len(kw)) :
     \A j \in 1..Len(kw) : Lower(blob[i + j]) = Lower(kw[j])

\* a literal word at position i, case-insensitively
LitEnd(s, i, w) ==
  IF i >= 1 /\ i + Len(w) - 1 <= Len(s)
     /\ \A j \in 1..Len(w) : Lower(s[i + j - 1]) = Lower(w[j])
  THEN i + Len(w) ELSE 0

\* \s? at position i (i = 0 stays 0)
OptWs(s, i) == IF i >= 1 /\ i <= Len(s) /\ IsWs(s[i]) THEN i + 1 ELSE i

\* the greedy length of \d{0,max} at position i
RECURSIVE DigitsRun(_, _, _)
DigitsRun(s, i, max) ==
  IF max = 0 \/ i < 1 \/ i > Len(s) \/ ~IsDigit(s[i]) THEN 0
  ELSE 1 + DigitsRun(s, i + 1, max - 1)

\* the position n characters after i, or 0 when n = 0
After(i, n) == IF n = 0 THEN 0 ELSE i + n

\* \d{1,max} at position i
DigitsEnd(s, i, max) == After(i, DigitsRun(s, i, max))

\* (?:\.\d{1,2})? at position k, behind the digits of an amount
FractionEnd(s, k) ==
  IF k >= 1 /\ k <= Len(s) /\ s[k] = "."
  THEN IF DigitsRun(s, k + 1, 2) > 0 THEN DigitsEnd(s, k + 1, 2) ELSE k
  ELSE k

\* \d{1,max}(?:\.\d{1,2})? at position i
AmountEnd(s, i, max) == FractionEnd(s, DigitsEnd(s, i, max))

\* \$\s? at position i: the position of the amount that follows
DollarEnd(s, i) ==
  IF i >= 1 /\ i <= Len(s) /\ s[i] = "$" THEN OptWs(s, i + 1) ELSE 0

\* \$\s?\d{1,3}(?:\.\d{1,2})? at position i.  When \s? has taken a blank
\* and no digit follows, giving the blank back cannot help either.
PriceEnd(s, i) == AmountEnd(s, DollarEnd(s, i), 3)

\* \d+\s?for\s?\$\s?\d+(?:\.\d{1,2})? at position i: each part begins where
\* the part before it ended, and a part that fails (0) fails the rest
MultiBuyEnd(s, i) ==
  AmountEnd(s,
            DollarEnd(s, OptWs(s, LitEnd(s, OptWs(s, DigitsEnd(s, i, Len(s))),
                                         <<"f","o","r">>))),
            Len(s))

\* buy\s?\d+\s?get\s?\d+ at position i
BuyGetEnd(s, i) ==
  DigitsEnd(s,
            OptWs(s, LitEnd(s, OptWs(s, DigitsEnd(s, OptWs(s, LitEnd(s, i, <<"b","u","y">>)),
                                                  Len(s))),
                            <<"g","e","t">>)),
            Len(s))

\* price_rx.search(s) of extract_blocks_for_fallback
price_rx_search(s) ==
  \E i \in 1..Len(s) :
     PriceEnd(s, i) > 0 \/ MultiBuyEnd(s, i) > 0 \/ BuyGetEnd(s, i) > 0

\* price_rx.search(txt) of find_product_cards: the same three alternatives
card_price_rx_search(s) ==
  \E i \in 1..Len(s) :
     PriceEnd(s, i) > 0 \/ MultiBuyEnd(s, i) > 0 \/ BuyGetEnd(s, i) > 0

\* the first of two alternatives that matches
OrElse(a, b) == IF a > 0 THEN a ELSE b

\* /(?:lb|kg|ea) at position i
PerUnitEnd(s, i) ==
  IF i >= 1 /\ i <= Len(s) /\ s[i] = "/"
  THEN OrElse(LitEnd(s, i + 1, <<"l","b">>),
              OrElse(LitEnd(s, i + 1, <<"k","g">>), LitEnd(s, i + 1, <<"e","a">>)))
  ELSE 0

\* the unit pattern at position i: its alternatives in order
UnitEnd(s, i) ==
  OrElse(PerUnitEnd(s, i), OrElse(MultiBuyEnd(s, i), LitEnd(s, i, <<"e","a","c","h">>)))

\* the least member of a set of positions, 0 for the empty set
Leftmost(S) == IF S = {} THEN 0 ELSE CHOOSE i \in S : \A k \in S : i <= k

\* m.group(1) of the price pattern matched at position p
PriceGroup(s, p) == IF p = 0 THEN <<>> ELSE SubSeq(s, DollarEnd(s, p), PriceEnd(s, p) - 1)

\* um.group(0) of the unit pattern matched at position u
UnitGroup(s, u) == IF u = 0 THEN <<>> ELSE SubSeq(s, u, UnitEnd(s, u) - 1)

\* guess_price_unit(s): <<price, unit>>, each from the leftmost match
guess_price_unit(s) ==
  << PriceGroup(s, Leftmost({i \in 1..Len(s) : PriceEnd(s, i) > 0})),
     UnitGroup(s, Leftmost({i \in 1..Len(s) : UnitEnd(s, i) > 0})) >>

(***************************************************************************)
(* URLs.  urllib.parse.urljoin for the references this model uses:         *)
(* absolute ("http://host/path"), host-relative ("/path") and path-relative   *)
(* ("name"); no query, fragment or dot segments.                           *)
(***************************************************************************)
SlashPositions(u) == {i \in 1..Len(u) : u[i] = "/"}

\* the reference carries its own scheme: a ":" before any "/"
HasScheme(u) ==
  \E i \in 2..Len(u) : u[i] = ":" /\ \A j \in 1..(i - 1) : u[j] \notin {"/", ":"}

\* position of the "/" that starts the path of "scheme://host/path", or 0
PathStart(base) ==
  LET ps == {i \in SlashPositions(base) :
               Cardinality({j \in SlashPositions(base) : j < i}) = 2}
  IN IF ps = {} THEN 0 ELSE CHOOSE i \in ps : TRUE

urljoin(base, url) ==
  IF url = <<>> THEN base
  ELSE IF HasScheme(url) THEN url
  ELSE IF Head(url) = "/"
       THEN (IF PathStart(base) = 0 THEN base
             ELSE SubSeq(base, 1, PathStart(base) - 1)) \o url
  ELSE IF PathStart(base) = 0 THEN base \o <<"/">> \o url
  ELSE LET last == CHOOSE i \in SlashPositions(base) :
                      \A k \in SlashPositions(base) : k <= i
       IN SubSeq(base, 1, last) \o url

\* absolutize(base, url): "" for a missing or empty reference
absolutize(base, url) ==
  IF url = None \/ url = <<>> THEN <<>> ELSE urljoin(base, url)

(***************************************************************************)
(* The parsed document.  A soup is what the selectors of the code return   *)
(* on it: the product-typed elements, the div/li/article/section elements, *)
(* the two Open-Graph meta elements, the flattened page text and the lines *)
(* of the visible text.  An element is what select_one and get_text return *)
(* inside it; None stands for "no such descendant".                        *)
(***************************************************************************)

\* the card built from an element by the structured and the generic strategy
CardOf(el, rawtext, src) ==
  [title |-> textnorm(el.title),
   price |-> textnorm(el.price),
   img   |-> IF el.img = None THEN <<>> ELSE el.img,
   href  |-> IF el.href = None THEN <<>> ELSE el.href,
   raw   |-> rawtext,
   src   |-> src]

\* strategy 1: one card per schema.org Product element
StructuredCards(sp) ==
  [i \in 1..Len(sp.products) |->
     CardOf(sp.products[i], textnorm(sp.products[i].text), "structured")]

\* strategy 2: the containers whose text has a price and that hold an image
\* or a title element
RECURSIVE GenericCardsOf(_)
GenericCardsOf(cs) ==
  IF cs = <<>> THEN <<>>
  ELSE LET c   == Head(cs)
           txt == textnorm(c.text)
       IN IF ~card_price_rx_search(txt) THEN GenericCardsOf(Tail(cs))
          ELSE IF c.img = None /\ c.title = None THEN GenericCardsOf(Tail(cs))
          ELSE <<CardOf(c, txt, "generic")>> \o GenericCardsOf(Tail(cs))

GenericCards(sp) == GenericCardsOf(sp.containers)

\* strategy 3: one page-level card from the Open-Graph metadata
OpenGraphCards(sp) ==
  IF sp.og_title # None \/ sp.og_img # None
  THEN << [title |-> textnorm(sp.og_title),
           price |-> <<>>,
           img   |-> IF sp.og_img = None THEN <<>> ELSE sp.og_img,
           href  |-> <<>>,
           raw   |-> textnorm(sp.page_text),
           src   |-> "opengraph"] >>
  ELSE <<>>

\* `if not cards:` then the cards of the next strategy
IfNoCards(cs, more) == IF cs = <<>> THEN more ELSE cs

\* find_product_cards without the two `if not cards` guards
find_product_cards_unguarded(sp) ==
  StructuredCards(sp) \o GenericCards(sp) \o OpenGraphCards(sp)

\* find_product_cards(soup).  The field src of a card is history: it names
\* the strategy that built the card and is read by no operation.
find_product_cards(sp) ==
  IfNoCards(IfNoCards(StructuredCards(sp), GenericCards(sp)), OpenGraphCards(sp))

\* the first keyword, in list order, that re.search finds in text; 0 if none
FirstHit(kws, text) ==
  LET hs == {k \in 1..Len(kws) : re_search(kws[k], text)}
  IN IF hs = {} THEN 0 ELSE CHOOSE k \in hs : \A j \in hs : k <= j

Blob(card) == Join(<<" ">>, <<card.title, card.price, card.raw>>)

\* match_cards_by_keywords(cards, keywords)
\* what the keyword loop appends for one card: k is its first hit, or 0
MatchOf(card, kws, k) ==
  IF k = 0 THEN <<>> ELSE << [card |-> card, hit |-> kws[k]] >>

RECURSIVE match_cards_by_keywords(_, _)
match_cards_by_keywords(cs, kws) ==
  IF cs = <<>> THEN <<>>
  ELSE MatchOf(Head(cs), kws, FirstHit(kws, Blob(Head(cs))))
       \o match_cards_by_keywords(Tail(cs), kws)

\* extract_blocks_for_fallback(soup)
RECURSIVE BlocksOf(_)
BlocksOf(ls) ==
  IF ls = <<>> THEN <<>>
  ELSE LET line == Strip(Head(ls))
       IN IF line = <<>> THEN BlocksOf(Tail(ls))
          ELSE IF Len(line) < MinBlockLen /\ ~price_rx_search(line)
               THEN BlocksOf(Tail(ls))
          ELSE <<textnorm(line)>> \o BlocksOf(Tail(ls))

extract_blocks_for_fallback(sp) == BlocksOf(sp.lines)

(***************************************************************************)
(* Deal records                                                            *)
(***************************************************************************)
SCHEMA == <<"date", "store", "product", "price", "unit", "promo_text",
            "valid_from", "valid_to", "url", "id", "image_url", "product_url">>

\* x or y, for texts
OrText(x, y) == IF x # <<>> THEN x ELSE y

\* the dict rows_from_matches appends for match m, given its local
\* variables title, product_url and image_url
RowOf(d, store_name, base_url, m, title, product_url, image_url) ==
  [date        |-> d,
   store       |-> store_name,
   product     |-> OrText(title, m.hit),
   price       |-> m.card.price,
   unit        |-> <<>>,
   promo_text  |-> textnorm(m.card.raw),
   valid_from  |-> <<>>,
   valid_to    |-> <<>>,
   url         |-> OrText(product_url, base_url),
   id          |-> sha1(Join(<<"|">>, <<store_name, title, m.card.price,
                                        OrText(product_url, base_url)>>)),
   image_url   |-> image_url,
   product_url |-> product_url]

\* MatchRow without the `or m.get("raw","")[:120]` of the title
MatchRow_title_only(d, store_name, base_url, m) ==
  RowOf(d, store_name, base_url, m,
        m.card.title,
        absolutize(base_url, m.card.href),
        absolutize(base_url, m.card.img))

\* the record rows_from_matches builds for one match, on date d
MatchRow(d, store_name, base_url, m) ==
  RowOf(d, store_name, base_url, m,
        OrText(m.card.title, Take(m.card.raw, TitleSliceLen)),
        absolutize(base_url, m.card.href),
        absolutize(base_url, m.card.img))

\* the loop over `seen`: keep the first row of every id, in order
RECURSIVE DedupById(_, _)
DedupById(rs, seen) ==
  IF rs = <<>> THEN <<>>
  ELSE IF Head(rs).id \in seen THEN DedupById(Tail(rs), seen)
  ELSE <<Head(rs)>> \o DedupById(Tail(rs), seen \cup {Head(rs).id})

\* the list `rows` of rows_from_matches when its first loop has ended
BuiltRows(d, store_name, base_url, ms) ==
  [i \in 1..Len(ms) |-> MatchRow(d, store_name, base_url, ms[i])]

\* rows_from_matches without its second loop
rows_from_matches_nodedup(d, store_name, base_url, ms) ==
  BuiltRows(d, store_name, base_url, ms)

\* rows_from_matches(store_name, base_url, matches), on date d
rows_from_matches(d, store_name, base_url, ms) ==
  DedupById(BuiltRows(d, store_name, base_url, ms), {})

\* the inner keyword loop of rows_from_fallback_blocks: hit starts as None
\* and takes the first keyword that re.search finds in the block
KeywordAt(kws, k) == IF k = 0 THEN None ELSE kws[k]

BlockHit(kws, b) == KeywordAt(kws, FirstHit(kws, b))

\* `not hit`: true of None and of the empty string
NotHit(hit) == hit = None \/ hit = <<>>

\* the record rows_from_fallback_blocks builds for block b with keyword
\* hit, pu being guess_price_unit(b)
BlockRow(d, store_name, base_url, hit, b, pu) ==
  [date        |-> d,
   store       |-> store_name,
   product     |-> hit,
   price       |-> pu[1],
   unit        |-> pu[2],
   promo_text  |-> b,
   valid_from  |-> <<>>,
   valid_to    |-> <<>>,
   url         |-> base_url,
   id          |-> sha1(Join(<<"|">>, <<store_name, hit, b, base_url>>)),
   image_url   |-> <<>>,
   product_url |-> <<>>]

\* what one turn of the loop of rows_from_fallback_blocks appends
BlockRows(d, store_name, base_url, hit, b) ==
  IF NotHit(hit) THEN <<>>
  ELSE <<BlockRow(d, store_name, base_url, hit, b, guess_price_unit(b))>>

\* rows_from_fallback_blocks(store_name, base_url, keywords, blocks), on date d
RECURSIVE rows_from_fallback_blocks(_, _, _, _, _)
rows_from_fallback_blocks(d, store_name, base_url, kws, bs) ==
  IF bs = <<>> THEN <<>>
  ELSE BlockRows(d, store_name, base_url, BlockHit(kws, Head(bs)), Head(bs))
       \o rows_from_fallback_blocks(d, store_name, base_url, kws, Tail(bs))

(***************************************************************************)
(* Inputs.  Texts, elements and documents the operations are run on.       *)
(***************************************************************************)
\* "egg"
T_egg == <<"e","g","g">>
\* "milk"
T_milk == <<"m","i","l","k">>
\* " "
T_blank == <<" ">>
\* " Organic  Eggs "
T_OrganicEggs ==
  <<" ","O","r","g","a","n","i","c"," "," ","E","g","g","s"," ">>
\* "$4.99"
T_p499 == <<"$","4",".","9","9">>
\* "Organic Eggs\n$4.99"
T_EggsText ==
  <<"O","r","g","a","n","i","c"," ","E","g","g","s","\n","$","4",".",
      "9","9">>
\* "/i/e.png"
T_imgEggs == <<"/","i","/","e",".","p","n","g">>
\* "/eggs"
T_hrefEggs == <<"/","e","g","g","s">>
\* "$2"
T_p2 == <<"$","2">>
\* "Fresh milk $2"
T_MilkText == <<"F","r","e","s","h"," ","m","i","l","k"," ","$","2">>
\* "Bread"
T_Bread == <<"B","r","e","a","d">>
\* "http://c/b"
T_hrefBread == <<"h","t","t","p",":","/","/","c","/","b">>
\* "Eggs"
T_Eggs == <<"E","g","g","s">>
\* "Eggs on sale"
T_EggsOnSale == <<"E","g","g","s"," ","o","n"," ","s","a","l","e">>
\* "egg $1"
T_egg1 == <<"e","g","g"," ","$","1">>
\* "Egg deal"
T_EggDeal == <<"E","g","g"," ","d","e","a","l">>
\* "Egg deal buy 1 get 1"
T_EggDealText ==
  <<"E","g","g"," ","d","e","a","l"," ","b","u","y"," ","1"," ","g","e",
      "t"," ","1">>
\* "e.png"
T_imgDeal == <<"e",".","p","n","g">>
\* "deal"
T_hrefDeal == <<"d","e","a","l">>
\* "$3"
T_p3 == <<"$","3">>
\* "l.png"
T_imgLong == <<"l",".","p","n","g">>
\* "egg $3 "
T_LongHead == <<"e","g","g"," ","$","3"," ">>
\* "Egg Flyer"
T_EggFlyer == <<"E","g","g"," ","F","l","y","e","r">>
\* "http://c/f.png"
T_imgFlyer == <<"h","t","t","p",":","/","/","c","/","f",".","p","n","g">>
\* "Weekly flyer milk"
T_FlyerText ==
  <<"W","e","e","k","l","y"," ","f","l","y","e","r"," ","m","i","l",
      "k">>
\* "p.png"
T_imgPoster == <<"p",".","p","n","g">>
\* "all about eggs"
T_PageEggs == <<"a","l","l"," ","a","b","o","u","t"," ","e","g","g","s">>
\* "  Eggs $3 a dozen "
T_Line1 ==
  <<" "," ","E","g","g","s"," ","$","3"," ","a"," ","d","o","z","e","n",
      " ">>
\* "Eggs  $3 a dozen"
T_Line2 ==
  <<"E","g","g","s"," "," ","$","3"," ","a"," ","d","o","z","e","n">>
\* "EGGS $3 today"
T_Line3 == <<"E","G","G","S"," ","$","3"," ","t","o","d","a","y">>
\* "2 for $5 milk and eggs"
T_Line4 ==
  <<"2"," ","f","o","r"," ","$","5"," ","m","i","l","k"," ","a","n","d",
      " ","e","g","g","s">>
\* "short egg"
T_LineShort == <<"s","h","o","r","t"," ","e","g","g">>
\* "A"
T_StoreA == <<"A">>
\* "B"
T_StoreB == <<"B">>
\* "C"
T_StoreC == <<"C">>
\* "Read timed out"
T_Timeout == <<"R","e","a","d"," ","t","i","m","e","d"," ","o","u","t">>
\* "404 Not Found"
T_NotFound == <<"4","0","4"," ","N","o","t"," ","F","o","u","n","d">>
\* " -> "
T_Arrow == <<" ","-",">"," ">>
\* "http://"
T_UrlHead == <<"h","t","t","p",":","/","/">>

\* n times the character c
Pad(c, n) == [i \in 1..n |-> c]

\* the text of a container longer than TitleSliceLen
T_LongText == T_LongHead \o Pad("x", TitleSliceLen)

\* lines of MinBlockLen and of MinBlockLen - 1 characters, without a price
T_Line100 == T_egg \o Pad("y", MinBlockLen - Len(T_egg))
T_Line99  == T_egg \o Pad("z", MinBlockLen - 1 - Len(T_egg))

Elem(title, price, img, href, text) ==
  [title |-> title, price |-> price, img |-> img, href |-> href, text |-> text]

\* schema.org Product elements
El_Eggs  == Elem(T_OrganicEggs, T_p499, T_imgEggs, T_hrefEggs, T_EggsText)
El_Milk  == Elem(None, T_p2, None, None, T_MilkText)
El_Bread == Elem(T_Bread, None, None, T_hrefBread, T_Bread)

\* div / li / article / section elements
Co_NoPrice == Elem(T_Eggs, None, T_imgDeal, None, T_EggsOnSale)
Co_Bare    == Elem(None, None, None, None, T_egg1)
Co_Deal    == Elem(T_EggDeal, None, T_imgDeal, T_hrefDeal, T_EggDealText)
Co_Long    == Elem(None, T_p3, T_imgLong, None, T_LongText)

ProductLists   == { <<>>, <<El_Eggs, El_Milk, El_Eggs>>, <<El_Bread>> }
ContainerLists == { <<>>, <<Co_NoPrice, Co_Bare>>,
                    <<Co_NoPrice, Co_Deal, Co_Long, Co_Bare>> }
OpenGraphs     == { [og_title |-> None, og_img |-> None, page_text |-> T_PageEggs],
                    [og_title |-> T_EggFlyer, og_img |-> T_imgFlyer,
                     page_text |-> T_FlyerText],
                    [og_title |-> None, og_img |-> T_imgPoster, page_text |-> <<>>] }
LineLists      == { <<>>,
                    <<T_Line1, T_Line2, T_Line3, T_milk, <<>>, T_Line4>>,
                    <<T_Line100, T_LineShort, T_Line99>> }

MkSoup(ps, cs, og, ls) ==
  [products |-> ps, containers |-> cs, og_title |-> og.og_title,
   og_img |-> og.og_img, page_text |-> og.page_text, lines |-> ls]

Soups ==
  { MkSoup(ps, cs, og, ls) :
      ps \in ProductLists, cs \in ContainerLists, og \in OpenGraphs, ls \in LineLists }

KeywordLists == { <<T_egg>>, <<T_milk, T_egg>>, << <<>>, T_egg >>, <<T_blank>>, <<>> }

\* the url of page u of the store named n: "http://" n "/" u
UrlOf(n, u) == T_UrlHead \o n \o <<"/", <<"1","2","3","4","5","6","7","8","9">>[u]>>

Sites == { [name |-> T_StoreA, url |-> UrlOf(T_StoreA, 1)],
           [name |-> T_StoreB, url |-> T_UrlHead \o T_StoreB] }

(***************************************************************************)
(* Files                                                                   *)
(***************************************************************************)
Digits == <<"1","2","3","4","5","6","7","8","9">>

\* "2026-01-0"
T_DateHead == <<"2","0","2","6","-","0","1","-","0">>

\* datetime.date.today().isoformat() on day d of the month
DateOf(d) == T_DateHead \o <<Digits[d]>>

\* the day of a date; file names sort by it
DayNo(t) == CHOOSE d \in 1..Len(Digits) : DateOf(d) = t

\* the header line csv.DictWriter.writeheader() writes: the names of SCHEMA
HeaderLine ==
  << <<"d","a","t","e">>,
     <<"s","t","o","r","e">>,
     <<"p","r","o","d","u","c","t">>,
     <<"p","r","i","c","e">>,
     <<"u","n","i","t">>,
     <<"p","r","o","m","o","_","t","e","x","t">>,
     <<"v","a","l","i","d","_","f","r","o","m">>,
     <<"v","a","l","i","d","_","t","o">>,
     <<"u","r","l">>,
     <<"i","d">>,
     <<"i","m","a","g","e","_","u","r","l">>,
     <<"p","r","o","d","u","c","t","_","u","r","l">> >>

\* the line csv.DictWriter writes for one row: its values in SCHEMA order
LineOf(r) == [i \in 1..Len(SCHEMA) |-> r[SCHEMA[i]]]

LinesOf(rows) == [i \in 1..Len(rows) |-> LineOf(rows[i])]

NoFile   == [exists |-> FALSE, lines |-> <<>>]
NoReport == [exists |-> FALSE, sections |-> <<>>, hist |-> <<>>]

\* data/all.csv after write_daily_and_all, with a header on every write
AllCsvAfter_always_header(f, rows) ==
  [exists |-> TRUE, lines |-> f.lines \o <<HeaderLine>> \o LinesOf(rows)]

\* data/all.csv after write_daily_and_all(rows): opened for append, the
\* header written only when the file did not exist
AllCsvAfter(f, rows) ==
  [exists |-> TRUE,
   lines  |-> f.lines \o (IF ~f.exists THEN <<HeaderLine>> ELSE <<>>) \o LinesOf(rows)]

\* the daily files after write_daily_and_all(rows) on date d: the file of
\* that date opened for writing
DailyAfter(files, d, rows) ==
  [n \in DOMAIN files \cup {d} |->
     IF n = d THEN <<HeaderLine>> \o LinesOf(rows) ELSE files[n]]

(***************************************************************************)
(* The extraction functions, called in pipeline order on one document.     *)
(***************************************************************************)
MainIdle ==
  /\ keywords = <<>> /\ stores = <<>> /\ si = 0 /\ ui = 0
  /\ gkeys = <<>> /\ grouped = <<>> /\ all_rows = <<>> /\ log = <<>>

FilesIdle ==
  /\ allcsv = NoFile /\ daily = <<>> /\ report = NoReport /\ runs = <<>>

FnIdle ==
  /\ fsite = <<>> /\ soup = <<>> /\ fkw = <<>> /\ cards = <<>> /\ matched = <<>>
  /\ built = <<>> /\ rows1 = <<>> /\ rows2 = <<>> /\ blocks = <<>> /\ frows = <<>> /\ fdone = 0

FnInit ==
  /\ MainIdle /\ FilesIdle /\ TODAY = DateOf(1)
  /\ pc = "fn"
  /\ fsite \in Sites
  /\ soup \in Soups
  /\ fkw \in KeywordLists
  /\ cards = <<>> /\ matched = <<>> /\ built = <<>> /\ rows1 = <<>> /\ rows2 = <<>>
  /\ blocks = <<>> /\ frows = <<>>
  /\ fdone = 0

CallFindProductCards ==
  /\ pc = "fn" /\ fdone = 0
  /\ cards' = find_product_cards(soup)
  /\ fdone' = 1
  /\ UNCHANGED <<mainVars, pc, fileVars, fsite, soup, fkw, matched, built, rows1,
                 rows2, blocks, frows>>

CallMatchCards ==
  /\ pc = "fn" /\ fdone = 1
  /\ matched' = match_cards_by_keywords(cards, fkw)
  /\ fdone' = 2
  /\ UNCHANGED <<mainVars, pc, fileVars, fsite, soup, fkw, cards, built, rows1,
                 rows2, blocks, frows>>

CallRowsFromMatches ==
  /\ pc = "fn" /\ fdone = 2
  /\ built' = BuiltRows(TODAY, fsite.name, fsite.url, matched)
  /\ rows1' = rows_from_matches(TODAY, fsite.name, fsite.url, matched)
  /\ fdone' = 3
  /\ UNCHANGED <<mainVars, pc, fileVars, fsite, soup, fkw, cards, matched, rows2,
                 blocks, frows>>

CallRowsFromMatchesAgain ==
  /\ pc = "fn" /\ fdone = 3
  /\ rows2' = rows_from_matches(TODAY, fsite.name, fsite.url, matched)
  /\ fdone' = 4
  /\ UNCHANGED <<mainVars, pc, fileVars, fsite, soup, fkw, cards, matched, built,
                 rows1, blocks, frows>>

CallExtractBlocks ==
  /\ pc = "fn" /\ fdone = 4
  /\ blocks' = extract_blocks_for_fallback(soup)
  /\ fdone' = 5
  /\ UNCHANGED <<mainVars, pc, fileVars, fsite, soup, fkw, cards, matched, built,
                 rows1, rows2, frows>>

CallRowsFromFallback ==
  /\ pc = "fn" /\ fdone = 5
  /\ frows' = rows_from_fallback_blocks(TODAY, fsite.name, fsite.url, fkw, blocks)
  /\ fdone' = 6
  /\ UNCHANGED <<mainVars, pc, fileVars, fsite, soup, fkw, cards, matched, built,
                 rows1, rows2, blocks>>

FnNext ==
  \/ CallFindProductCards
  \/ CallMatchCards
  \/ CallRowsFromMatches
  \/ CallRowsFromMatchesAgain
  \/ CallExtractBlocks
  \/ CallRowsFromFallback

FnSpec == FnInit /\ [][FnNext]_vars

(***************************************************************************)
(* Properties of the extraction functions (specification FnSpec)           *)
(***************************************************************************)
Range(f) == {f[i] : i \in DOMAIN f}

\* the n-th smallest member of a set of numbers
NthOf(S, n) == CHOOSE i \in S : Cardinality({j \in S : j < i}) = n - 1

\* whether some keyword of the list is found in the text
AnyKeywordIn(kws, text) == \E k \in 1..Len(kws) : re_search(kws[k], text)

\* whether kw is the first keyword of the list that is found in the text
IsFirstKeywordIn(kw, kws, text) ==
  \E k \in 1..Len(kws) :
     /\ kws[k] = kw
     /\ re_search(kws[k], text)
     /\ \A j \in 1..(k - 1) : ~re_search(kws[j], text)

\* C4: find_product_cards returns the output of exactly one strategy, the
\* first of structured, generic, Open-Graph that yields a card: structured
\* cards alone when there are any, generic cards only when there is no
\* structured card, the one Open-Graph card only when there is neither, and
\* nothing exactly when all three yield nothing.
C4_StrategyPriority ==
  fdone >= 1 =>
    LET s1   == StructuredCards(soup)
        s2   == GenericCards(soup)
        s3   == OpenGraphCards(soup)
        srcs == {cards[i].src : i \in DOMAIN cards}
    IN /\ Cardinality(srcs) <= 1
       /\ s1 # <<>> => cards = s1
       /\ "generic" \in srcs => s1 = <<>> /\ cards = s2
       /\ "opengraph" \in srcs =>
             s1 = <<>> /\ s2 = <<>> /\ Len(cards) = 1 /\ cards = s3
       /\ (cards = <<>>) <=> (s1 = <<>> /\ s2 = <<>> /\ s3 = <<>>)

\* a document that satisfies the structured and the generic condition and
\* has Open-Graph metadata too, after find_product_cards has run on it
C4_Witness ==
  /\ fdone >= 1
  /\ StructuredCards(soup) # <<>>
  /\ GenericCards(soup) # <<>>
  /\ OpenGraphCards(soup) # <<>>
  /\ cards = StructuredCards(soup)

\* C5: for every card given to match_cards_by_keywords and every block given
\* to rows_from_fallback_blocks, one match is emitted iff some keyword
\* matches, never more than one, it carries the first keyword in list order
\* that matches, and the matches keep the order of the cards / blocks.
C5_FirstKeywordWins ==
  fdone = 6 =>
    LET selC == {i \in 1..Len(cards) : AnyKeywordIn(fkw, Blob(cards[i]))}
        selB == {i \in 1..Len(blocks) : AnyKeywordIn(fkw, blocks[i])}
    IN /\ Len(matched) = Cardinality(selC)
       /\ \A n \in 1..Len(matched) :
             n <= Cardinality(selC) =>
               /\ matched[n].card = cards[NthOf(selC, n)]
               /\ IsFirstKeywordIn(matched[n].hit, fkw, Blob(cards[NthOf(selC, n)]))
       /\ Len(frows) = Cardinality(selB)
       /\ \A n \in 1..Len(frows) :
             n <= Cardinality(selB) =>
               /\ frows[n].promo_text = blocks[NthOf(selB, n)]
               /\ IsFirstKeywordIn(frows[n].product, fkw, blocks[NthOf(selB, n)])

\* a price text that is a dollar amount and nothing else
IsDollarAmount(p) == p # <<>> /\ PriceEnd(p, 1) = Len(p) + 1

\* C6: a card-path match whose price text is a dollar amount yields a record
\* whose price is the numeric portion only, the currency sign stripped.
C6_CardPriceIsNumeric ==
  fdone >= 3 =>
    \A i \in 1..Len(matched) :
       IsDollarAmount(matched[i].card.price) =>
          built[i].price = From(matched[i].card.price,
                                DollarEnd(matched[i].card.price, 1))

\* C7 as stated: the product of a built record is the card's title when
\* that is non-empty and the matched keyword whenever the title is empty.
C7_ProductIsTitleElseKeyword ==
  fdone >= 3 =>
    \A i \in 1..Len(matched) :
       built[i].product = IF matched[i].card.title # <<>>
                          THEN matched[i].card.title
                          ELSE matched[i].hit

\* C7 as amended: the product of a built record is the card's title when
\* that is non-empty; else the first 120 characters of the card's raw text
\* when that is non-empty; else the matched keyword.
C7_ProductIsTitleElseRawElseKeyword ==
  fdone >= 3 =>
    /\ Len(built) = Len(matched)
    /\ \A i \in 1..Len(matched) :
         built[i].product =
           IF matched[i].card.title # <<>> THEN matched[i].card.title
           ELSE IF matched[i].card.raw # <<>>
                THEN SubSeq(matched[i].card.raw, 1,
                            Min(TitleSliceLen, Len(matched[i].card.raw)))
           ELSE matched[i].hit

\* a match without a title whose raw text is longer than the slice and does
\* not begin with the keyword, so that the three candidates differ
C7_Witness ==
  /\ fdone >= 3
  /\ \E i \in 1..Len(matched) :
        /\ matched[i].card.title = <<>>
        /\ Len(matched[i].card.raw) > TitleSliceLen
        /\ Len(built[i].product) = TitleSliceLen
        /\ built[i].product # matched[i].hit
        /\ \E n \in 1..Len(rows1) : rows1[n] = built[i]

SameDeal(r1, r2) ==
  /\ r1.store = r2.store /\ r1.product = r2.product
  /\ r1.price = r2.price /\ r1.url = r2.url

\* C8: two records built by rows_from_matches or rows_from_fallback_blocks
\* have equal ids iff their store, product, price and url are all identical.
C8_IdIffSameDeal ==
  fdone = 6 =>
    \A r1 \in Range(built) \cup Range(frows) :
       \A r2 \in Range(built) \cup Range(frows) :
          (r1.id = r2.id) <=> SameDeal(r1, r2)

\* C10: two calls of rows_from_matches on one match list return the same id
\* sequence; each output has pairwise distinct ids and consists of the first
\* occurrences of the built records in input order; and the ids left after
\* deduplicating the two outputs together are as many as either output has.
C10_DedupIdempotent ==
  fdone >= 4 =>
    LET first == {i \in 1..Len(built) :
                    \A j \in 1..(i - 1) : built[j].id # built[i].id}
    IN /\ [n \in 1..Len(rows1) |-> rows1[n].id] = [n \in 1..Len(rows2) |-> rows2[n].id]
       /\ \A a, b \in 1..Len(rows1) : a # b => rows1[a].id # rows1[b].id
       /\ \A a, b \in 1..Len(rows2) : a # b => rows2[a].id # rows2[b].id
       /\ Len(rows1) = Cardinality(first)
       /\ \A n \in 1..Len(rows1) :
             n <= Cardinality(first) => rows1[n] = built[NthOf(first, n)]
       /\ Cardinality({r.id : r \in Range(rows1 \o rows2)}) = Len(rows1)
       /\ Cardinality({r.id : r \in Range(rows1 \o rows2)}) = Len(rows2)

\* a match list with a repeated record, of which a later one was dropped
\* while a record behind it was kept
C10_Witness ==
  /\ fdone >= 4
  /\ Len(built) >= 3
  /\ Len(rows1) >= 2
  /\ Len(rows1) < Len(built)
  /\ built[1].id = built[Len(built)].id

(***************************************************************************)
(* main(): one run over the configured stores and urls                     *)
(***************************************************************************)
\* the configured urls of one run, over all stores
MaxTotalUrls == 3

\* render_index_md keeps the newest 10 daily files
HistLimit == 10

StoreNames == <<T_StoreA, T_StoreB, T_StoreC>>

RECURSIVE SumOf(_)
SumOf(f) == IF f = <<>> THEN 0 ELSE Head(f) + SumOf(Tail(f))

\* the configurations: for each of up to Len(StoreNames) stores its number
\* of urls, MaxTotalUrls at most in all
StoreConfigs ==
  { shape \in UNION { [1..n -> 0..MaxTotalUrls] : n \in 0..Len(StoreNames) } :
      SumOf(shape) <= MaxTotalUrls }

MkStores(shape) ==
  [i \in DOMAIN shape |->
     [name |-> StoreNames[i],
      urls |-> [u \in 1..shape[i] |-> UrlOf(StoreNames[i], u)]]]

MainKeywordLists == { <<T_egg>>, <<T_milk, T_egg>> }

\* the documents a fetch can return
PageCards   == MkSoup(<<El_Eggs, El_Milk, El_Eggs>>, <<>>,
                      [og_title |-> None, og_img |-> None, page_text |-> T_PageEggs],
                      <<T_Line1, T_Line2, T_Line3, T_milk, <<>>, T_Line4>>)
PageNoMatch == MkSoup(<<El_Bread>>, <<>>,
                      [og_title |-> None, og_img |-> None, page_text |-> T_PageEggs],
                      <<T_Line3, T_LineShort>>)
PageText    == MkSoup(<<>>, <<>>,
                      [og_title |-> None, og_img |-> None, page_text |-> T_PageEggs],
                      <<T_Line1, T_Line2>>)
PageEmpty   == MkSoup(<<>>, <<>>,
                      [og_title |-> None, og_img |-> None, page_text |-> <<>>],
                      <<>>)
MainPages   == {PageCards, PageNoMatch, PageText, PageEmpty}

\* str(e) of the exceptions a url can raise
Errors == {T_Timeout, T_NotFound}

\* "ERROR"
T_ERROR == <<"E","R","R","O","R">>

\* the configured urls in the order main() visits them, with their store
RECURSIVE FlatUrls(_)
FlatUrls(ss) ==
  IF ss = <<>> THEN <<>>
  ELSE [u \in 1..Len(Head(ss).urls) |->
          [store |-> Head(ss).name, url |-> Head(ss).urls[u]]]
       \o FlatUrls(Tail(ss))

\* the rows of the try body of main(): fb says whether the fallback runs
PageRows(d, name, url, kws, sp, cs, ms, fb) ==
  [ncards     |-> Len(cs),
   nmatches   |-> Len(ms),
   fallback   |-> fb,
   card_rows  |-> IF fb THEN <<>> ELSE rows_from_matches(d, name, url, ms),
   block_rows |-> IF fb
                  THEN rows_from_fallback_blocks(d, name, url, kws,
                                                 extract_blocks_for_fallback(sp))
                  ELSE <<>>]

\* `if matches: ... else: ...` of main(), deciding on the cards instead
Branch_on_cards(d, name, url, kws, sp, cs, ms) ==
  PageRows(d, name, url, kws, sp, cs, ms, cs = <<>>)

\* `if matches: ... else: ...` of main()
Branch(d, name, url, kws, sp, cs, ms) ==
  PageRows(d, name, url, kws, sp, cs, ms, ms = <<>>)

\* matches = match_cards_by_keywords(cards, keywords), and what follows
WithCards(d, name, url, kws, sp, cs) ==
  Branch(d, name, url, kws, sp, cs, match_cards_by_keywords(cs, kws))

\* the try body of main() for one fetched document: the cards, the matches,
\* and the rows of the card path or, without a match, of the fallback
PageResult(d, name, url, kws, sp) ==
  WithCards(d, name, url, kws, sp, find_product_cards(sp))

\* the record of the except branch for exception text e
ErrRow(d, name, url, e) ==
  [date        |-> d,
   store       |-> name,
   product     |-> T_ERROR,
   price       |-> <<>>,
   unit        |-> <<>>,
   promo_text  |-> url \o T_Arrow \o e,
   valid_from  |-> <<>>,
   valid_to    |-> <<>>,
   url         |-> url,
   id          |-> sha1(e),
   image_url   |-> <<>>,
   product_url |-> <<>>]

\* the entries render_index_md writes below "## Matches": per store of
\* `grouped`, in key order, one entry per row
ReportSections(keys, g) ==
  [k \in 1..Len(keys) |->
     [store |-> keys[k],
      items |-> [i \in 1..Len(g[keys[k]]) |->
                   LET r == g[keys[k]][i]
                   IN [title |-> r.product,
                       link  |-> IF r.product_url # <<>> THEN r.product_url ELSE r.url,
                       img   |-> r.image_url,
                       price |-> r.price]]]]

\* the names of the newest HistLimit daily files, newest first
RECURSIVE NewestFirst(_)
NewestFirst(ds) ==
  IF ds = {} THEN <<>>
  ELSE LET m == CHOOSE d \in ds : \A e \in ds : DayNo(e) <= DayNo(d)
       IN <<m>> \o NewestFirst(ds \ {m})

ReportHistory(files) == Take(NewestFirst(DOMAIN files), HistLimit)

MainInit ==
  /\ pc = "loop"
  /\ keywords \in MainKeywordLists
  /\ \E shape \in StoreConfigs : stores = MkStores(shape)
  /\ si = 0 /\ ui = 0
  /\ gkeys = <<>> /\ grouped = <<>> /\ all_rows = <<>> /\ log = <<>>
  /\ TODAY = DateOf(1)
  /\ FilesIdle
  /\ FnIdle

\* the inner loop has no url left, or the outer loop has not begun
UrlsDone == IF si = 0 THEN TRUE ELSE ui > Len(stores[si].urls)

\* for store in stores: name = store["name"]; grouped.setdefault(name, [])
EnterStore ==
  /\ pc = "loop" /\ UrlsDone /\ si < Len(stores)
  /\ si' = si + 1
  /\ ui' = 1
  /\ LET name == stores[si + 1].name
     IN IF name \in DOMAIN grouped
        THEN UNCHANGED <<gkeys, grouped>>
        ELSE /\ gkeys' = Append(gkeys, name)
             /\ grouped' = [n \in DOMAIN grouped \cup {name} |->
                              IF n = name THEN <<>> ELSE grouped[n]]
  /\ UNCHANGED <<keywords, stores, all_rows, log, pc, fileVars, fnVars>>

\* grouped[name].extend(rows); all_rows.extend(rows), and the history entry
Extend(name, url, failed, res, rows) ==
  /\ grouped' = [grouped EXCEPT ![name] = @ \o rows]
  /\ all_rows' = all_rows \o rows
  /\ log' = Append(log, [store |-> name, url |-> url, failed |-> failed,
                         ncards |-> res.ncards, nmatches |-> res.nmatches,
                         fallback |-> res.fallback,
                         card_rows |-> res.card_rows,
                         block_rows |-> res.block_rows,
                         rows |-> rows])

ExtendWith(name, url, res) ==
  Extend(name, url, FALSE, res, res.card_rows \o res.block_rows)

\* one url whose try body runs to its end
ProcessUrlOk ==
  /\ pc = "loop" /\ ~UrlsDone
  /\ \E sp \in MainPages :
       ExtendWith(stores[si].name, stores[si].urls[ui],
                  PageResult(TODAY, stores[si].name, stores[si].urls[ui], keywords, sp))
  /\ ui' = ui + 1
  /\ UNCHANGED <<keywords, stores, si, gkeys, pc, fileVars, fnVars>>

\* one url whose try body raises: the exception leaves main()
ProcessUrlFail_propagates ==
  /\ pc = "loop" /\ ~UrlsDone
  /\ \E e \in Errors : pc' = "done"
  /\ UNCHANGED <<mainVars, fileVars, fnVars>>

NoPage ==
  [ncards |-> 0, nmatches |-> 0, fallback |-> FALSE,
   card_rows |-> <<>>, block_rows |-> <<>>]

\* one url whose try body raises e, in fetch, in the parser or in the
\* extraction: nothing of the page is kept, the except branch adds one record
ProcessUrlFail ==
  /\ pc = "loop" /\ ~UrlsDone
  /\ \E e \in Errors :
       Extend(stores[si].name, stores[si].urls[ui], TRUE, NoPage,
              <<ErrRow(TODAY, stores[si].name, stores[si].urls[ui], e)>>)
  /\ ui' = ui + 1
  /\ UNCHANGED <<keywords, stores, si, gkeys, pc, fileVars, fnVars>>

\* the loops have ended: write_daily_and_all(all_rows), then the report
Finish ==
  /\ pc = "loop" /\ UrlsDone /\ si = Len(stores)
  /\ allcsv' = AllCsvAfter(allcsv, all_rows)
  /\ daily' = DailyAfter(daily, TODAY, all_rows)
  /\ runs' = Append(runs, [date |-> TODAY, rows |-> all_rows])
  /\ report' = [exists   |-> TRUE,
                sections |-> ReportSections(gkeys, grouped),
                hist     |-> ReportHistory(daily')]
  /\ pc' = "done"
  /\ UNCHANGED <<mainVars, TODAY, fnVars>>

Next ==
  \/ EnterStore
  \/ ProcessUrlOk
  \/ ProcessUrlFail
  \/ Finish

Spec == MainInit /\ [][Next]_vars

(***************************************************************************)
(* Runs of write_daily_and_all, one process after another                  *)
(***************************************************************************)
MaxRuns == 3
MaxDay  == 2

\* the row lists a run can hand to write_daily_and_all on date d
CardRowsOn(d) ==
  rows_from_matches(d, T_StoreA, UrlOf(T_StoreA, 1),
                    match_cards_by_keywords(find_product_cards(PageCards), <<T_egg>>))

RunRows(d) ==
  { <<>>,
    CardRowsOn(d),
    <<ErrRow(d, T_StoreA, UrlOf(T_StoreA, 2), T_Timeout)>>,
    CardRowsOn(d) \o <<ErrRow(d, T_StoreA, UrlOf(T_StoreA, 2), T_Timeout)>> }

FileInit ==
  /\ pc = "idle"
  /\ MainIdle /\ FnIdle
  /\ TODAY = DateOf(1)
  /\ FilesIdle

\* a new process is started: the module body sets TODAY
StartProcess ==
  /\ pc = "idle" /\ Len(runs) < MaxRuns
  /\ \E d \in 1..MaxDay : d >= DayNo(TODAY) /\ TODAY' = DateOf(d)
  /\ pc' = "run"
  /\ UNCHANGED <<mainVars, allcsv, daily, report, runs, fnVars>>

\* write_daily_and_all(rows), and the process ends
WriteDailyAndAll ==
  /\ pc = "run"
  /\ \E rows \in RunRows(TODAY) :
       /\ allcsv' = AllCsvAfter(allcsv, rows)
       /\ daily' = DailyAfter(daily, TODAY, rows)
       /\ runs' = Append(runs, [date |-> TODAY, rows |-> rows])
  /\ pc' = "idle"
  /\ UNCHANGED <<mainVars, TODAY, report, fnVars>>

FileNext ==
  \/ StartProcess
  \/ WriteDailyAndAll

FileSpec == FileInit /\ [][FileNext]_vars

(***************************************************************************)
(* Properties of main() (specification Spec)                               *)
(***************************************************************************)
\* sub occurs in text, character for character
Contains(text, sub) ==
  \E i \in 0..(Len(text) - Len(sub)) : SubSeq(text, i + 1, i + Len(sub)) = sub

\* the rows of the history entries of the stores named in names, in order
RECURSIVE RowsOfLog(_, _)
RowsOfLog(l, names) ==
  IF l = <<>> THEN <<>>
  ELSE (IF Head(l).store \in names THEN Head(l).rows ELSE <<>>)
       \o RowsOfLog(Tail(l), names)

\* C1: main() attempts every configured url of every store exactly once, in
\* configuration order, whatever fails; each failing url contributes to its
\* store exactly one record, with product "ERROR" and a promo_text that
\* contains the url, and nothing else; and the run ends with its output.
C1_FailureIsolation ==
  LET flat == FlatUrls(stores)
  IN /\ Len(log) <= Len(flat)
     /\ \A i \in 1..Len(log) :
           /\ i <= Len(flat)
           /\ log[i].store = flat[i].store
           /\ log[i].url = flat[i].url
     /\ pc = "done" =>
           /\ Len(log) = Len(flat)
           /\ runs = << [date |-> TODAY, rows |-> all_rows] >>
           /\ \A k \in 1..Len(stores) : stores[k].name \in DOMAIN grouped
     /\ \A i \in 1..Len(log) :
           log[i].failed =>
              /\ Len(log[i].rows) = 1
              /\ log[i].rows[1].product = T_ERROR
              /\ log[i].rows[1].store = log[i].store
              /\ Contains(log[i].rows[1].promo_text, log[i].url)
     /\ \A name \in DOMAIN grouped :
           grouped[name] = RowsOfLog(log, {name})
     /\ all_rows = RowsOfLog(log, {stores[k].name : k \in 1..Len(stores)})

\* a finished run in which a url failed, a later url of the same store and
\* a url of a later store were processed and gave records
C1_Witness ==
  /\ pc = "done"
  /\ \E i, j, k \in 1..Len(log) :
        /\ i < j /\ j < k
        /\ log[i].failed
        /\ ~log[j].failed /\ log[j].store = log[i].store /\ log[j].rows # <<>>
        /\ ~log[k].failed /\ log[k].store # log[i].store /\ log[k].rows # <<>>
        /\ Len(grouped[log[i].store]) = 1 + Len(log[j].rows)

\* C2: at the end of a run, no two records accumulated for one store have
\* the same id.
C2_UniqueIdsPerStore ==
  pc = "done" =>
    \A name \in DOMAIN grouped :
       \A a, b \in 1..Len(grouped[name]) :
          a # b => grouped[name][a].id # grouped[name][b].id

\* C3 as stated: the fallback runs only for a page without cards; a page
\* with at least one card gives no fallback-block record.
C3_FallbackOnlyWithoutCards ==
  \A i \in 1..Len(log) :
     /\ log[i].fallback => log[i].ncards = 0
     /\ log[i].ncards >= 1 => log[i].block_rows = <<>>

\* C3 as amended: the fallback runs exactly for the pages none of whose
\* cards matches a keyword, the pages without cards among them; a page with
\* at least one matching card gives card records and no fallback-block
\* record.
C3_FallbackOnlyWithoutMatches ==
  \A i \in 1..Len(log) :
     ~log[i].failed =>
        /\ log[i].fallback <=> log[i].nmatches = 0
        /\ log[i].ncards = 0 => log[i].fallback
        /\ log[i].nmatches >= 1 =>
              /\ log[i].block_rows = <<>>
              /\ log[i].card_rows # <<>>
              /\ log[i].rows = log[i].card_rows
        /\ log[i].fallback =>
              /\ log[i].card_rows = <<>>
              /\ log[i].rows = log[i].block_rows

\* a page with a card that matches no keyword, for which the fallback ran
\* and gave a record, and a page with a matching card
C3_Witness ==
  /\ \E i \in 1..Len(log) :
        /\ log[i].ncards >= 1 /\ log[i].nmatches = 0
        /\ log[i].fallback /\ log[i].block_rows # <<>>
        /\ grouped[log[i].store] # <<>>
  /\ \E i \in 1..Len(log) : log[i].nmatches >= 1 /\ ~log[i].fallback

(***************************************************************************)
(* Properties of the files (specification FileSpec)                        *)
(***************************************************************************)
RECURSIVE LinesOfRuns(_)
LinesOfRuns(rs) ==
  IF rs = <<>> THEN <<>> ELSE LinesOf(Head(rs).rows) \o LinesOfRuns(Tail(rs))

\* C9: over any sequence of runs, data/all.csv holds one header line, its
\* first, and behind it the rows of every run in run order; the snapshot
\* file of a date holds the header and the rows of the last run of that
\* date, and nothing of an earlier run.
C9_HistoryAppendOnly ==
  /\ allcsv.exists <=> runs # <<>>
  /\ runs # <<>> => allcsv.lines = <<HeaderLine>> \o LinesOfRuns(runs)
  /\ Cardinality({i \in 1..Len(allcsv.lines) : allcsv.lines[i] = HeaderLine})
       = IF runs = <<>> THEN 0 ELSE 1
  /\ DOMAIN daily = {runs[i].date : i \in 1..Len(runs)}
  /\ \A i \in 1..Len(runs) :
        (\A j \in (i + 1)..Len(runs) : runs[j].date # runs[i].date) =>
           daily[runs[i].date] = <<HeaderLine>> \o LinesOf(runs[i].rows)

\* three runs with rows, the second on the date of the first with other
\* rows, the third on a later date
C9_Witness ==
  /\ Len(runs) >= 3
  /\ runs[1].rows # <<>> /\ runs[2].rows # <<>> /\ runs[3].rows # <<>>
  /\ runs[1].date = runs[2].date /\ runs[1].rows # runs[2].rows
  /\ runs[3].date # runs[1].date
  /\ Len(allcsv.lines) > Len(daily[runs[1].date]) + Len(daily[runs[3].date]) - 1

====
